---- MODULE Spec2Model ----
(***************************************************************************)
(* Model of numerical_solution.ipynb (neutron burst capture chain).        *)
(*                                                                         *)
(* The notebook's cells run top to bottom once (get_solar_isotopes and the *)
(* isotope_abunds cell, the ordered_dict cell, the sigs_array cell) and    *)
(* then the two interact() callbacks, plot_nuclear_network and             *)
(* compare_nuclear_network, are called any number of times.  The cell that *)
(* plots one trajectory (line 342) only reads and is left out.             *)
(*                                                                         *)
(* Numbers.  Python floats are modelled by exact integers over a common    *)
(* denominator:                                                            *)
(*   - an abundance x/A is held as the integer x*AbUnit/A, AbUnit being a  *)
(*     common multiple of the mass numbers of the chain;                   *)
(*   - the exposure is counted in solver steps of size max_step =          *)
(*     1/StepDen, and after k steps the solver's vector holds numerators   *)
(*     over StepDen^k;                                                     *)
(*   - the delta values, which divide, are extended rationals with the     *)
(*     IEEE outcomes inf and nan that numpy's float64 division produces.   *)
(*                                                                         *)
(* Objects.  numpy arrays and Python lists are mutable and passed by       *)
(* reference, so they live in `heap`, keyed by allocation site; a variable *)
(* holding an array holds the key.  "isotope_abundances" is the array a     *)
(* caller of compare_nuclear_network passes when it is not isotope_abunds  *)
(* itself; it is empty otherwise.                                          *)
(***************************************************************************)
EXTENDS Integers, Sequences, FiniteSets, TLC

\* ------------------------------------------------------------------ bounds
\* Longest chain (the notebook's has 11 species).
MaxN == 3
\* Mass fractions the solar table may hold, 0..MaxX.
MaxX == 1
\* Capture rates the rate table may hold, 1..MaxRate.
MaxRate == 1
\* Largest exposure a callback is called with, in units of max_step.
MaxTau == 2
\* 1/max_step in the model's exposure unit.
StepDen == 5

\* v_T*N_A*barn in the model's rate unit: 1000*value/VTNAB is the cross section
\* in mb of a rate `value`.
VTNAB == 500
\* normalizing_species = 'ca40', the first species of the chain.
normalizing_species == 1

VARIABLES
    species,         \* the chain, a list of isotope names (here 1..N)
    x_solar,         \* solar table: isotope -> mass fraction (partial)
    reacs,           \* rate table: isotope -> (n,gamma) rate (partial)
    d_solar,         \* dict isotope -> abundance, in insertion order
    ordered_dict,    \* dict isotope -> rate, in insertion order
    heap,            \* allocation site -> contents of the array or list
    pc,              \* the cell or the place inside a callback that runs next
    fn,              \* the callback running or last run
    tau,             \* its exposure argument, in solver steps
    k,               \* solver steps taken
    yref,            \* the array the solver holds as its current y
    ret,             \* the array dYdt returned last
    outcome,         \* how the last cell or callback ended
    sol_y,           \* sol.y[:, -1] of the last callback that integrated
    delta,           \* the delta list of the last compare_nuclear_network
    rerun            \* whether a callback had run before the current one

vars == <<species, x_solar, reacs, d_solar, ordered_dict, heap, pc, fn, tau, k,
          yref, ret, outcome, sol_y, delta, rerun>>

\* ------------------------------------------------------------- arithmetic
RECURSIVE Factorial(_)
Factorial(n) == IF n <= 1 THEN 1 ELSE n * Factorial(n - 1)

RECURSIVE Pow(_, _)
Pow(b, e) == IF e = 0 THEN 1 ELSE b * Pow(b, e - 1)

RECURSIVE GCD(_, _)
GCD(a, b) == IF b = 0 THEN a ELSE GCD(b, a % b)

Abs(a) == IF a < 0 THEN -a ELSE a

RECURSIVE SumSeq(_)
SumSeq(s) == IF s = <<>> THEN 0 ELSE Head(s) + SumSeq(Tail(s))

Zeros(n) == [i \in 1..n |-> 0]

\* float64 values of the delta computation: a rational n/d (d > 0, lowest
\* terms), or inf, or nan.
Num(n, d) ==
    LET g == GCD(Abs(n), Abs(d))
        s == IF d < 0 THEN -1 ELSE 1
    IN  [kind |-> "num", n |-> s * (n \div g), d |-> s * (d \div g)]
Inf == [kind |-> "inf", n |-> 1, d |-> 0]
NaN == [kind |-> "nan", n |-> 0, d |-> 0]

\* numpy float64 true division: x/0 is inf, 0/0 and inf/inf are nan (a
\* RuntimeWarning, no exception).  All operands here are >= 0.
FDiv(a, b) ==
    CASE a.kind = "nan" \/ b.kind = "nan" -> NaN
      [] a.kind = "inf" /\ b.kind = "inf" -> NaN
      [] a.kind = "inf" -> Inf
      [] b.kind = "inf" -> Num(0, 1)
      [] b.n = 0 /\ a.n = 0 -> NaN
      [] b.n = 0 -> Inf
      [] OTHER -> Num(a.n * b.d, a.d * b.n)

FSub(a, b) ==
    CASE a.kind = "nan" \/ b.kind = "nan" -> NaN
      [] a.kind = "inf" /\ b.kind = "inf" -> NaN
      [] a.kind = "inf" -> Inf
      [] OTHER -> Num(a.n * b.d - b.n * a.d, a.d * b.d)

FMul(c, a) ==
    CASE a.kind = "nan" -> NaN
      [] a.kind = "inf" -> Inf
      [] OTHER -> Num(c * a.n, a.d)

\* ------------------------------------------------------------------ dicts
\* A Python dict: <<[key, value], ...>> in insertion order.
DictKeys(d) == {d[i].key : i \in 1..Len(d)}
DictGet(d, key) == d[CHOOSE i \in 1..Len(d) : d[i].key = key].value
DictPut(d, key, value) ==
    IF key \in DictKeys(d)
    THEN [i \in 1..Len(d) |->
            IF d[i].key = key THEN [key |-> key, value |-> value] ELSE d[i]]
    ELSE Append(d, [key |-> key, value |-> value])

\* list.index
Index(list, x) == CHOOSE i \in 1..Len(list) : list[i] = x

\* ------------------------------------------------------- data providers
\* The mass number of an isotope (solar_xml.get_z_a_state_from_nuclide_name,
\* tup[1]): the chain's isotopes are named by their mass numbers.
MassNumber(isotope) == isotope

\* Abundances are held in units of 1/AbUnit, a common multiple of the mass
\* numbers, so that x_solar[s] / tup[1] is an integer.
AbUnit == Factorial(MaxN)

\* x_solar[s_tup] / tup[1]
Abund(x, a) == (x * AbUnit) \div a

\* The neutron 'n' of induced_reac_xpath; it is no isotope of the chain.
Neutron == 0

\* The reactants of the (n,gamma) reaction the rate table keys by `key`.
Reactants(key) == {key, Neutron}

Tables(n, values) == UNION {[S -> values] : S \in SUBSET (1..n)}

\* ------------------------------------------------------ get_solar_isotopes
RECURSIVE GetSolarLoop(_, _, _, _)
GetSolarLoop(xs, isotopes, i, d) ==
    IF i > Len(isotopes) THEN d
    ELSE LET isotope == isotopes[i] IN
         IF isotope \in DOMAIN xs
         THEN GetSolarLoop(xs, isotopes, i + 1,
                  DictPut(d, isotope, Abund(xs[isotope], MassNumber(isotope))))
         ELSE GetSolarLoop(xs, isotopes, i + 1, d)

\* The dict d that get_solar_isotopes returns.
get_solar_isotopes(xs, isotopes) == GetSolarLoop(xs, isotopes, 1, <<>>)

\* isotope_abunds = np.zeros(len(species));
\* for k, v in d_solar.items(): isotope_abunds[species.index(k)] = v
RECURSIVE FillAbunds(_, _, _, _)
FillAbunds(sp, d, i, arr) ==
    IF i > Len(d) THEN arr
    ELSE FillAbunds(sp, d, i + 1, [arr EXCEPT ![Index(sp, d[i].key)] = d[i].value])

IsotopeAbunds(sp, d) == FillAbunds(sp, d, 1, Zeros(Len(sp)))

\* ------------------------------------------------------------ ordered_dict
\* for sp in species: for key, value in reactions: if sp in value.reactants:
\*     ordered_dict[sp] = reacs[key][0]
RECURSIVE OrderedDictLoop(_, _, _, _)
OrderedDictLoop(rs, sp, i, d) ==
    IF i > Len(sp) THEN d
    ELSE LET hits == {key \in DOMAIN rs : sp[i] \in Reactants(key)} IN
         IF hits = {} THEN OrderedDictLoop(rs, sp, i + 1, d)
         ELSE OrderedDictLoop(rs, sp, i + 1,
                  DictPut(d, sp[i], rs[CHOOSE key \in hits : TRUE]))

OrderedDict(rs, sp) == OrderedDictLoop(rs, sp, 1, <<>>)

\* -------------------------------------------------------------- sigs_array
\* 1000*value/(v_T*N_A*GSL_CONST_CGSM_BARN)
CrossSection(value) == (1000 * value) \div VTNAB

\* for key, value in ordered_dict.items(): sigs_array.append(...)
SigsArray(d) == [i \in 1..Len(d) |-> CrossSection(d[i].value)]

\* -------------------------------------------------------------------- dYdt
\* A faulty variant of NewResult, `result = y`: the result aliases the argument.
NewResultAlias(h, y, n) == [heap |-> h, ref |-> y]

\* result = np.zeros(N): a new array at the allocation site "result".
NewResult(h, y, n) == [heap |-> [h EXCEPT !["result"] = Zeros(n)], ref |-> "result"]

\* for i in range(1, N): result[i] = sigs[i-1]*y[i-1] - sigs[i]*y[i]
\* (indices here are 1-based: i runs over 2..N).
RECURSIVE DYdtLoop(_, _, _, _, _, _)
DYdtLoop(h, y, sigs, res, i, n) ==
    IF i > n THEN [heap |-> h, ret |-> res, exc |-> "none"]
    ELSE IF Len(h[sigs]) < i \/ Len(h[y]) < i \/ Len(h[res]) < i
         THEN [heap |-> h, ret |-> "none", exc |-> "IndexError"]
         ELSE DYdtLoop(
                  [h EXCEPT ![res][i] = h[sigs][i-1] * h[y][i-1] - h[sigs][i] * h[y][i]],
                  y, sigs, res, i + 1, n)

\* dYdt(t, y, sigs) on the heap h; y and sigs are references.
dYdt(t, h, y, sigs) ==
    LET n  == Len(h[y])
        a  == NewResult(h, y, n)
        h1 == a.heap
        res == a.ref
    IN  IF Len(h1[sigs]) < 1 \/ Len(h1[y]) < 1 \/ Len(h1[res]) < 1
        THEN [heap |-> h1, ret |-> "none", exc |-> "IndexError"]
        ELSE DYdtLoop([h1 EXCEPT ![res][1] = -h1[sigs][1] * h1[y][1]],
                      y, sigs, res, 2, n)

\* ------------------------------------------------------------- solve_ivp
\* One solver step of size max_step = 1/StepDen from y with derivative f:
\* y_new = y + h*f, a new array.  Both hold numerators; y_new's denominator
\* is StepDen times y's.  (scipy's explicit Runge-Kutta step, taken at its
\* first-order increment; every explicit RK step is a weighted sum of such
\* dYdt evaluations.)
RkStepY(y, f) == [i \in 1..Len(y) |-> StepDen * y[i] + f[i]]

\* A faulty variant of RkAdvance, `y += h*f`: the step is written into the
\* array it was given.
RkAdvanceInPlace(h, y, f) ==
    [heap |-> [h EXCEPT ![y] = RkStepY(h[y], h[f])], ref |-> y]

\* The solver's step on the heap: y_new is a new array, at the site "y".
RkAdvance(h, y, f) ==
    [heap |-> [h EXCEPT !["y"] = RkStepY(h[y], h[f])], ref |-> "y"]

\* The locals of a callback die when it returns.
DropLocals(h) == [h EXCEPT !["y"] = <<>>, !["result"] = <<>>]

\* ------------------------------------------------- compare_nuclear_network
\* 1000 * ((sol.y[species.index(sp), -1] / d_solar[sp]) /
\*         (sol.y[species.index(normalizing_species), -1]
\*              / d_solar[normalizing_species]) - 1)
\* y holds numerators over den.
DeltaOf(sp, d, y, den, key) ==
    LET top == FDiv(Num(y[Index(sp, key)], den), Num(DictGet(d, key), 1))
        bot == FDiv(Num(y[Index(sp, normalizing_species)], den),
                    Num(DictGet(d, normalizing_species), 1))
    IN  FMul(1000, FSub(FDiv(top, bot), Num(1, 1)))

\* for sp in d_solar: delta.append(...); d_solar[normalizing_species] raises
\* KeyError in the first iteration when the key is missing.
DeltaList(sp, d, y, den) ==
    IF Len(d) = 0 THEN [exc |-> "none", delta |-> <<>>]
    ELSE IF normalizing_species \notin DictKeys(d)
         THEN [exc |-> "KeyError", delta |-> <<>>]
         ELSE [exc |-> "none",
               delta |-> [i \in 1..Len(d) |-> DeltaOf(sp, d, y, den, d[i].key)]]

\* ------------------------------------------------------------------- cells
Init ==
    /\ \E n \in 1..MaxN :
          /\ species = [i \in 1..n |-> i]
          /\ x_solar \in Tables(n, 0..MaxX)
          /\ reacs \in Tables(n, 1..MaxRate)
    /\ d_solar = <<>>
    /\ ordered_dict = <<>>
    /\ heap = [o \in {"isotope_abunds", "sigs_array", "y", "result",
                      "isotope_abundances"} |-> <<>>]
    /\ pc = "solar"
    /\ fn = "none"
    /\ tau = 0
    /\ k = 0
    /\ yref = "none"
    /\ ret = "none"
    /\ outcome = "none"
    /\ sol_y = <<>>
    /\ delta = <<>>
    /\ rerun = FALSE

\* a_solar, d_solar, solar_abunds = get_solar_isotopes(species) and the
\* isotope_abunds loop.
SolarCell ==
    /\ pc = "solar"
    /\ d_solar' = get_solar_isotopes(x_solar, species)
    /\ heap' = [heap EXCEPT !["isotope_abunds"] = IsotopeAbunds(species, d_solar')]
    /\ pc' = "rates"
    /\ outcome' = "ok"
    /\ UNCHANGED <<species, x_solar, reacs, ordered_dict, fn, tau, k, yref, ret,
                   sol_y, delta, rerun>>

OrderedDictCell ==
    /\ pc = "rates"
    /\ ordered_dict' = OrderedDict(reacs, species)
    /\ pc' = "sigs"
    /\ outcome' = "ok"
    /\ UNCHANGED <<species, x_solar, reacs, d_solar, heap, fn, tau, k, yref, ret,
                   sol_y, delta, rerun>>

SigsArrayCell ==
    /\ pc = "sigs"
    /\ heap' = [heap EXCEPT !["sigs_array"] = SigsArray(ordered_dict)]
    /\ pc' = "ready"
    /\ outcome' = "ok"
    /\ UNCHANGED <<species, x_solar, reacs, d_solar, ordered_dict, fn, tau, k,
                   yref, ret, sol_y, delta, rerun>>

\* --------------------------------------------------------------- callbacks
\* solve_ivp(dYdt, (0, tau), y0, args=(sigs_array,), max_step=0.001): the
\* solver takes y0 itself as its first y (np.asarray of an array is the array).
Enter(f, t, y0, passed) ==
    /\ pc = "ready"
    /\ heap' = [heap EXCEPT !["isotope_abundances"] = passed]
    /\ fn' = f
    /\ tau' = t
    /\ k' = 0
    /\ yref' = y0
    /\ ret' = "none"
    /\ outcome' = "none"
    /\ sol_y' = <<>>
    /\ delta' = <<>>
    /\ rerun' = (fn # "none")
    /\ pc' = "evaluating"
    /\ UNCHANGED <<species, x_solar, reacs, d_solar, ordered_dict>>

\* interact(plot_nuclear_network, tau=..., abunds=fixed(isotope_abunds))
plot_nuclear_network ==
    \E t \in 0..MaxTau : Enter("plot", t, "isotope_abunds", <<>>)

\* An abundance array other than isotope_abunds that a caller may pass: as
\* long, and different in every component.
OtherAbunds(y0) == [i \in 1..Len(y0) |-> y0[i] + AbUnit]

\* A faulty variant of CompareY0: the integration starts from the argument.
CompareY0Arg(isotope_abundances) == isotope_abundances

\* The y0 compare_nuclear_network hands to solve_ivp: the global
\* isotope_abunds, whatever its isotope_abundances argument is.
CompareY0(isotope_abundances) == "isotope_abunds"

\* compare_nuclear_network(tau, isotope_abundances), called by interact with
\* isotope_abundances=fixed(isotope_abunds) or by any caller with its own array.
compare_nuclear_network ==
    \E t \in 0..MaxTau, a \in {"isotope_abunds", "isotope_abundances"} :
        Enter("compare", t, CompareY0(a),
              IF a = "isotope_abundances"
              THEN OtherAbunds(heap["isotope_abunds"]) ELSE <<>>)

\* The solver calls dYdt(t, y, sigs_array) on its current y.
Fun ==
    /\ pc = "evaluating"
    /\ LET r == dYdt(k, heap, yref, "sigs_array") IN
         IF r.exc = "none"
         THEN /\ heap' = r.heap
              /\ ret' = r.ret
              /\ pc' = "evaluated"
              /\ UNCHANGED <<outcome, yref>>
         ELSE /\ heap' = DropLocals(r.heap)
              /\ ret' = "none"
              /\ yref' = "none"
              /\ outcome' = r.exc
              /\ pc' = "ready"
    /\ UNCHANGED <<species, x_solar, reacs, d_solar, ordered_dict, fn, tau, k,
                   sol_y, delta, rerun>>

\* The solver advances by one step while it has not reached tau.
RkStep ==
    /\ pc = "evaluated"
    /\ k < tau
    /\ LET r == RkAdvance(heap, yref, ret) IN
         /\ heap' = r.heap
         /\ yref' = r.ref
    /\ k' = k + 1
    /\ pc' = "evaluating"
    /\ UNCHANGED <<species, x_solar, reacs, d_solar, ordered_dict, fn, tau, ret,
                   outcome, sol_y, delta, rerun>>

\* plot_nuclear_network after solve_ivp: it plots sol.y[:, -1].
PlotReturn ==
    /\ pc = "evaluated"
    /\ k = tau
    /\ fn = "plot"
    /\ sol_y' = heap[yref]
    /\ outcome' = "ok"
    /\ heap' = DropLocals(heap)
    /\ yref' = "none"
    /\ ret' = "none"
    /\ pc' = "ready"
    /\ UNCHANGED <<species, x_solar, reacs, d_solar, ordered_dict, fn, tau, k, delta, rerun>>

\* compare_nuclear_network after solve_ivp: the delta loop.
CompareReturn ==
    /\ pc = "evaluated"
    /\ k = tau
    /\ fn = "compare"
    /\ LET r == DeltaList(species, d_solar, heap[yref], Pow(StepDen, k)) IN
         /\ delta' = r.delta
         /\ outcome' = IF r.exc = "none" THEN "ok" ELSE r.exc
    /\ sol_y' = heap[yref]
    /\ heap' = DropLocals(heap)
    /\ yref' = "none"
    /\ ret' = "none"
    /\ pc' = "ready"
    /\ UNCHANGED <<species, x_solar, reacs, d_solar, ordered_dict, fn, tau, k, rerun>>

Next ==
    \/ SolarCell
    \/ OrderedDictCell
    \/ SigsArrayCell
    \/ plot_nuclear_network
    \/ compare_nuclear_network
    \/ Fun
    \/ RkStep
    \/ PlotReturn
    \/ CompareReturn

Spec == Init /\ [][Next]_vars

\* The final abundances solve_ivp returns for exposure t from the array y of
\* the heap h, computed with no state but its arguments.
RECURSIVE SolveIvp(_, _, _, _)
SolveIvp(h, y, t, j) ==
    LET r == dYdt(j, h, y, "sigs_array") IN
    IF r.exc # "none" THEN [exc |-> r.exc, y |-> <<>>]
    ELSE IF j = t THEN [exc |-> "none", y |-> r.heap[y]]
    ELSE LET a == RkAdvance(r.heap, y, r.ret) IN SolveIvp(a.heap, a.ref, t, j + 1)

\* ------------------------------------------------------------------ claims
N == Len(species)
Integrating == pc \in {"evaluating", "evaluated"}
SetUp == pc \in {"ready", "evaluating", "evaluated"}
Compared == pc = "ready" /\ fn = "compare" /\ outcome # "none"

\* C1: for N >= 2 the last component dYdt returns is sigs[N-2]*y[N-2] (0-based):
\* the terminal species has no outgoing term.
C1_TerminalIsSink ==
    (pc = "evaluated" /\ N >= 2) =>
        heap[ret][N] = heap["sigs_array"][N-1] * heap[yref][N-1]

\* C2: the total abundance is the same at every exposure as at tau = 0, and the
\* components of dYdt sum to zero in every state the integration reaches.
C2_TotalConserved ==
    N >= 2 =>
        /\ Integrating =>
              SumSeq(heap[yref]) = Pow(StepDen, k) * SumSeq(heap["isotope_abunds"])
        /\ pc = "evaluated" => SumSeq(heap[ret]) = 0

\* C3: sigs_array[i] is the cross section of the rate of species[i], for every
\* rate table, also one that lacks a species of the chain.
C3_SigsAligned ==
    SetUp =>
        \A i \in 1..N :
            species[i] \in DOMAIN reacs =>
                /\ i <= Len(heap["sigs_array"])
                /\ heap["sigs_array"][i] = CrossSection(reacs[species[i]])

\* C4: a rate table without a rate for a non-terminal species ends the
\* conversion in MissingRateError and produces no cross-section array.
C4_MissingRateError ==
    (pc = "ready" /\ fn = "none" /\ \E i \in 1..(N-1) : species[i] \notin DOMAIN reacs)
        => (outcome = "MissingRateError" /\ heap["sigs_array"] = <<>>)

\* C5: the delta value compare_nuclear_network computes for the normalizing
\* species is 0 whenever it produces a result.
C5_NormDeltaZero ==
    (Compared /\ outcome = "ok" /\ normalizing_species \in DictKeys(d_solar)) =>
        delta[CHOOSE i \in 1..Len(d_solar) : d_solar[i].key = normalizing_species]
            = Num(0, 1)

RefAbund(isotope) ==
    IF isotope \in DictKeys(d_solar) THEN DictGet(d_solar, isotope) ELSE 0

\* C6: a zero reference abundance of a species of the chain, or a reference or
\* final abundance of the normalizing species that is not > 0, ends the delta
\* computation in UndefinedDeltaError.
C6_UndefinedDeltaError ==
    (/\ Compared
     /\ outcome # "IndexError"
     /\ \/ \E i \in 1..N : RefAbund(species[i]) = 0
        \/ RefAbund(normalizing_species) <= 0
        \/ sol_y[Index(species, normalizing_species)] <= 0)
        => outcome = "UndefinedDeltaError"

\* C7: whatever callbacks have run, isotope_abunds, d_solar and sigs_array are
\* what the set-up cells made them, and a callback's final abundances are those
\* of a fresh integration of the baseline to its tau.
C7_Stateless ==
    SetUp =>
        LET d  == get_solar_isotopes(x_solar, species)
            y0 == IsotopeAbunds(species, d)
            sg == SigsArray(OrderedDict(reacs, species))
            h0 == [o \in DOMAIN heap |->
                     CASE o = "isotope_abunds" -> y0
                       [] o = "sigs_array" -> sg
                       [] OTHER -> <<>>]
        IN  /\ d_solar = d
            /\ heap["isotope_abunds"] = y0
            /\ heap["sigs_array"] = sg
            /\ (pc = "ready" /\ outcome = "ok" /\ fn # "none") =>
                   sol_y = SolveIvp(h0, "isotope_abunds", tau, 0).y

\* A callback that ran after another one has returned abundances that the
\* integration moved.
C7_Witness ==
    /\ pc = "ready" /\ outcome = "ok" /\ fn # "none" /\ tau >= 1 /\ rerun
    /\ \E i \in 1..N : sol_y[i] # Pow(StepDen, tau) * heap["isotope_abunds"][i]

\* C8: a call of dYdt leaves y and sigs as they were and returns a new array
\* as long as y.
C8_DYdtFrame ==
    [][(pc = "evaluating" /\ pc' = "evaluated") =>
          /\ heap'[yref] = heap[yref]
          /\ heap'["sigs_array"] = heap["sigs_array"]
          /\ ret' \notin {yref, "sigs_array", "isotope_abunds"}
          /\ Len(heap'[ret']) = Len(heap[yref])]_vars

\* dYdt has returned a non-zero derivative.
C8_Witness ==
    /\ pc = "evaluated"
    /\ \E i \in 1..N : heap[ret][i] # 0

\* C10: with positive non-terminal cross sections all mass ends in the terminal
\* species, which then never drops away from the initial total: once the
\* terminal abundance is the total, a solver step leaves it there.
C10_TerminalKeepsTotal ==
    [][(/\ pc = "evaluated" /\ pc' = "evaluating"
        /\ N >= 2
        /\ \A i \in 1..(N-1) : heap["sigs_array"][i] > 0
        /\ SumSeq(heap["isotope_abunds"]) > 0
        /\ heap[yref][N] = Pow(StepDen, k) * SumSeq(heap["isotope_abunds"]))
        => heap'[yref'][N] = Pow(StepDen, k') * SumSeq(heap["isotope_abunds"])]_vars

\* What compare_nuclear_network computes for exposure t on the heap h, from
\* the global arrays alone.
CompareResult(h, t) ==
    LET r == SolveIvp(h, "isotope_abunds", t, 0) IN
    IF r.exc # "none" THEN [outcome |-> r.exc, delta |-> <<>>]
    ELSE LET dl == DeltaList(species, d_solar, r.y, Pow(StepDen, t)) IN
         [outcome |-> IF dl.exc = "none" THEN "ok" ELSE dl.exc, delta |-> dl.delta]

\* C11: the delta list of compare_nuclear_network(tau, isotope_abundances) is
\* decided by tau and the global isotope_abunds alone, so two calls with the
\* same tau and different isotope_abundances produce the same list (and end
\* the same way).
C11_DeltaIgnoresArgument ==
    Compared =>
        LET r == CompareResult(
                     [heap EXCEPT !["isotope_abundances"] = <<>>], tau)
        IN  /\ outcome = r.outcome
            /\ delta = r.delta

\* compare_nuclear_network has returned a non-empty delta list after a call
\* with an array other than isotope_abunds and some solver steps.
C11_Witness ==
    /\ Compared /\ outcome = "ok" /\ tau >= 1
    /\ heap["isotope_abundances"] # <<>>
    /\ heap["isotope_abundances"] # heap["isotope_abunds"]
    /\ delta # <<>>

====
